---- MODULE Spec2Model ----
(***************************************************************************)
(* Link prediction notebook (basic_tasks_tf/3_link_predict.ipynb).         *)
(*                                                                         *)
(* The notebook is a linear script of cells.  Each cell, and each step of  *)
(* the body of the training loop, is one action; pc is the position of    *)
(* the script.  Arrays are sequences (1-indexed) whose ELEMENTS keep the   *)
(* 0-based node ids, edge ids and indices of the Python code, so a Python  *)
(* lookup x[i] is x[i + 1] here.                                           *)
(*                                                                         *)
(* Numeric tensors whose values are produced by the external libraries    *)
(* (the graph convolution, autodiff, Adam) are represented by the number   *)
(* of optimizer updates that their value incorporates; the scalar loss    *)
(* and the thresholded predictions are nondeterministic.                   *)
(***************************************************************************)
EXTENDS Integers, Sequences, FiniteSets

(***************************************************************************)
(* Program constants.                                                      *)
(***************************************************************************)
NumNodes == 34       \* np.eye(34); g.number_of_nodes()
EmbedDim == 5        \* Embedding(g.number_of_nodes(), 5)
TestSize == 50       \* eids[:50], neg_eids[:50]
NumNegSamples == 200 \* np.random.choice(len(neg_u), 200)
NumEpochs == 100     \* for e in range(100)
PrintEvery == 5      \* if e % 5 == 0

(***************************************************************************)
(* Bounds of the model: the families the random outcomes are drawn from.  *)
(***************************************************************************)
MaxPermStride == 5   \* strides of the edge-id permutations
MaxPermOffset == 0   \* offsets of the edge-id permutations
MaxNegOffset == 0    \* offsets of the negative index draws
MaxRepeat == 3       \* how often a draw repeats an index in a row
MaxLoss == 1         \* abstract loss values 0..MaxLoss

(***************************************************************************)
(* The loaded graph: Zachary's karate club, 34 nodes, 78 undirected edges  *)
(* stored as 156 directed edges (each edge in both directions).            *)
(***************************************************************************)
KarateSrc ==
  << 1, 2, 2, 3, 3, 3, 4, 5, 6, 6, 6, 7, 7, 7, 7, 8, 8, 9, 10, 10,
     10, 11, 12, 12, 13, 13, 13, 13, 16, 16, 17, 17, 19, 19, 21, 21,
     25, 25, 27, 27, 27, 28, 29, 29, 30, 30, 31, 31, 31, 31, 32, 32,
     32, 32, 32, 32, 32, 32, 32, 32, 32, 33, 33, 33, 33, 33, 33, 33,
     33, 33, 33, 33, 33, 33, 33, 33, 33, 33 >>

KarateDst ==
  << 0, 0, 1, 0, 1, 2, 0, 0, 0, 4, 5, 0, 1, 2, 3, 0, 2, 2, 0, 4,
     5, 0, 0, 3, 0, 1, 2, 3, 5, 6, 0, 1, 0, 1, 0, 1, 23, 24, 2, 23,
     24, 2, 23, 26, 1, 8, 0, 24, 25, 28, 2, 8, 14, 15, 18, 20, 22, 23,
     29, 30, 31, 8, 9, 13, 14, 15, 18, 19, 20, 22, 23, 26, 27, 28, 29, 30,
     31, 32 >>

\* u, v = g.edges(): the endpoints of the directed edges, by edge id
EdgeU == KarateSrc \o KarateDst
EdgeV == KarateDst \o KarateSrc

\* g.number_of_edges()
NumEdges == Len(EdgeU)

\* the directed edges of g as a set of pairs
EdgeSet == { <<EdgeU[k], EdgeV[k]>> : k \in 1..NumEdges }

(***************************************************************************)
(* Array helpers.                                                          *)
(***************************************************************************)
\* numpy/tf fancy indexing x[idx] with 0-based indices
Gather(x, idx) == [i \in 1..Len(idx) |-> x[idx[i] + 1]]

\* Python slice a[:n]
Head_(a, n) == SubSeq(a, 1, IF n < Len(a) THEN n ELSE Len(a))

\* Python slice a[n:]
Tail_(a, n) == SubSeq(a, n + 1, Len(a))

\* tf.zeros(n), tf.ones(n)
Zeros(n) == [i \in 1..n |-> 0]
Ones(n) == [i \in 1..n |-> 1]

SeqMax(s) == CHOOSE m \in { s[i] : i \in 1..Len(s) } : \A i \in 1..Len(s) : s[i] <= m

Range(s) == { s[i] : i \in 1..Len(s) }

(***************************************************************************)
(* Cell "load graph / node features".                                       *)
(***************************************************************************)
\* g.number_of_nodes()
GNumNodes == SeqMax(EdgeU \o EdgeV) + 1

\* mutant: the two arguments of Embedding exchanged
EmbeddingTransposed(rows, cols) == [n \in 1..cols |-> [k \in 1..rows |-> 0]]

\* tf.keras.layers.Embedding(rows, cols).embeddings: a rows x cols matrix.
\* An entry is the number of optimizer updates applied to it.
Embedding(rows, cols) == [n \in 1..rows |-> [k \in 1..cols |-> 0]]

\* shape of a matrix stored as a sequence of rows
Shape(m) == <<Len(m), IF Len(m) = 0 THEN 0 ELSE Len(m[1])>>

(***************************************************************************)
(* Cell "Split edge set for training and testing".                         *)
(***************************************************************************)
RECURSIVE GCD(_, _)
GCD(a, b) == IF b = 0 THEN a ELSE GCD(b, a % b)

\* np.arange(n)
Arange(n) == [i \in 1..n |-> i - 1]

\* Outcomes of np.random.permutation(eids): the permutations
\* i |-> stride * i + offset (mod n) of the given array, stride coprime to n.
PermutationOutcomes(arr) ==
  LET n == Len(arr) IN
  { Gather(arr, [i \in 1..n |-> (a * (i - 1) + b) % n]) :
      <<a, b>> \in { a \in 1..MaxPermStride : GCD(a, n) = 1 } \X (0..MaxPermOffset) }

\* eids[:50]
TestEids(perm) == Head_(perm, TestSize)

\* mutant: the training slice starts one position early
TrainEidsOverlap(perm) == Tail_(perm, TestSize - 1)

\* eids[50:]
TrainEids(perm) == Tail_(perm, TestSize)

(***************************************************************************)
(* Cell "Find all negative edges and split them".                          *)
(***************************************************************************)
\* shape of sp.coo_matrix((data, (u, v))): inferred from the largest indices
AdjShape == <<SeqMax(EdgeU) + 1, SeqMax(EdgeV) + 1>>

\* adj.todense()[i, j]: coo entries with equal coordinates are summed
Adj(i, j) == Cardinality({ k \in 1..NumEdges : EdgeU[k] = i /\ EdgeV[k] = j })

\* np.eye(34)[i, j]
Eye(i, j) == IF i = j THEN 1 ELSE 0

\* mutant: the identity is not subtracted
AdjNegNoEye(i, j) == 1 - Adj(i, j)

\* adj_neg = 1 - adj.todense() - np.eye(34)
AdjNeg(i, j) == 1 - Adj(i, j) - Eye(i, j)

\* np.where(adj_neg != 0): the flat row-major positions of the nonzero entries
IsNeg(flat) == AdjNeg(flat \div NumNodes, flat % NumNodes) # 0

NegFlat == SelectSeq(Arange(NumNodes * NumNodes), IsNeg)

\* neg_u, neg_v = np.where(adj_neg != 0)
NegU == [i \in 1..Len(NegFlat) |-> NegFlat[i] \div NumNodes]
NegV == [i \in 1..Len(NegFlat) |-> NegFlat[i] % NumNodes]

\* Outcomes of np.random.choice(n, size): size independent draws from 0..n-1
\* (with replacement).  The family: the draws walk upwards from an offset,
\* each index drawn r times in a row.
ChoiceOutcomes(n, size) ==
  { [i \in 1..size |-> (r * ((i - 1) \div r) + b) % n] :
      <<r, b>> \in (1..MaxRepeat) \X (0..MaxNegOffset) }

\* neg_eids[:50]
TestNegEids(draw) == Head_(draw, TestSize)

\* mutant: the training negatives are not sliced
TrainNegEidsAll(draw) == draw

\* neg_eids[50:]
TrainNegEids(draw) == Tail_(draw, TestSize)

(***************************************************************************)
(* Cell "Create training set / testing set".                               *)
(***************************************************************************)
\* mutant: ones for the positives, zeros for the negatives
LabelsSwapped(pos, neg) == Ones(Len(pos)) \o Zeros(Len(neg))

\* tf.concat([tf.zeros(len(pos)), tf.ones(len(neg))], axis=0)
Labels(pos, neg) == Zeros(Len(pos)) \o Ones(Len(neg))

(***************************************************************************)
(* Cells "training" and "check results".                                   *)
(***************************************************************************)
\* the graph passed to the network: net(g, inputs) aggregates over g's edges
MessageEdges == EdgeSet

\* net(g, inputs): the node representations, tagged by the parameters used
NoLogits == [net |-> -1, emb |-> -1, rows |-> 0]

Net(net_weights, feat) ==
  [net |-> net_weights, emb |-> feat[1][1], rows |-> Len(feat)]

\* tf.sigmoid(tf.reduce_sum(tf.gather(h, us) * tf.gather(h, vs), axis=1)):
\* one prediction per pair, computed from the representations h
NoPred == [src |-> NoLogits, n |-> 0]

Sigmoid(h, us, vs) == [src |-> h, n |-> Len(us)]

\* one optimizer update of a matrix: elementwise, the shape of the gradient
\* is the shape of the variable
Updated(m) == [n \in 1..Len(m) |-> [k \in 1..Len(m[n]) |-> m[n][k] + 1]]

\* outcomes of (pred >= 0.5) for n predictions: TRUE on a prefix or a suffix
Thresholded(n) ==
  { [i \in 1..n |-> i <= k] : k \in 0..n } \cup { [i \in 1..n |-> i > k] : k \in 0..n }

\* numpy compares the boolean with the float label: True == 1.0, False == 0.0
Bit(b) == IF b THEN 1 ELSE 0

\* ((pred >= 0.5) == test_label.numpy()).sum().item()
NumCorrect(bits, label) ==
  Cardinality({ i \in 1..Len(bits) : Bit(bits[i]) = label[i] })

NoAccuracy == [ok |-> FALSE, num |-> 0, den |-> 0]

\* mutant: the count is divided by the number of positive test examples
AccuracyOverPositives(bits, label) ==
  IF Len(bits) = 0 THEN NoAccuracy
  ELSE [ok |-> TRUE, num |-> NumCorrect(bits, label),
        den |-> Cardinality({ i \in 1..Len(label) : label[i] = 0 })]

\* numerator / len(pred); a zero denominator raises ZeroDivisionError
Accuracy(bits, label) ==
  IF Len(bits) = 0 THEN NoAccuracy
  ELSE [ok |-> TRUE, num |-> NumCorrect(bits, label), den |-> Len(bits)]

(***************************************************************************)
(* State.                                                                  *)
(***************************************************************************)
VARIABLES
  pc,           \* position of the script
  inputs,       \* node_embed.embeddings
  eids,         \* permuted edge ids
  test_pos_u, test_pos_v, train_pos_u, train_pos_v,
  neg_eids,     \* sampled indices into neg_u, neg_v
  test_neg_u, test_neg_v, train_neg_u, train_neg_v,
  train_u, train_v, train_label,
  test_u, test_v, test_label,
  net_w,        \* net.trainable_weights: number of updates applied; -1 before creation
  opt_iter,     \* optimizer.iterations
  e,            \* loop variable of the training loop
  logits,       \* result of the last forward pass
  pred,         \* the predictions computed last: their source and their number
  loss,         \* result of the last loss computation
  grads,        \* epoch whose gradients tape.gradient returned last; -1 for none
  all_logits,
  printed,      \* epochs whose loss line was printed
  n_forward,    \* number of forward passes executed
  n_loss,       \* number of loss computations executed
  pred_ge,      \* pred >= 0.5 of the check of the results
  acc           \* the printed accuracy: numerator and denominator

posVars == <<eids, test_pos_u, test_pos_v, train_pos_u, train_pos_v>>
negVars == <<neg_eids, test_neg_u, test_neg_v, train_neg_u, train_neg_v>>
setVars == <<train_u, train_v, train_label, test_u, test_v, test_label>>
trainVars == <<net_w, opt_iter, e, logits, loss, grads, all_logits, printed,
               n_forward, n_loss>>
resVars == <<pred_ge, acc>>
vars == <<pc, inputs, posVars, negVars, setVars, trainVars, pred, resVars>>

Init ==
  /\ pc = "load"
  /\ inputs = <<>>
  /\ eids = <<>>
  /\ test_pos_u = <<>> /\ test_pos_v = <<>>
  /\ train_pos_u = <<>> /\ train_pos_v = <<>>
  /\ neg_eids = <<>>
  /\ test_neg_u = <<>> /\ test_neg_v = <<>>
  /\ train_neg_u = <<>> /\ train_neg_v = <<>>
  /\ train_u = <<>> /\ train_v = <<>> /\ train_label = <<>>
  /\ test_u = <<>> /\ test_v = <<>> /\ test_label = <<>>
  /\ net_w = -1
  /\ opt_iter = 0
  /\ e = 0
  /\ logits = NoLogits
  /\ loss = 0
  /\ grads = -1
  /\ all_logits = <<>>
  /\ printed = <<>>
  /\ n_forward = 0
  /\ n_loss = 0
  /\ pred = NoPred
  /\ pred_ge = <<>>
  /\ acc = NoAccuracy

\* load graph, create the node embedding
LoadGraph ==
  /\ pc = "load"
  /\ inputs' = Embedding(GNumNodes, EmbedDim)
  /\ pc' = "split"
  /\ UNCHANGED <<posVars, negVars, setVars, trainVars, pred, resVars>>

\* split the positive edges
SplitEdges ==
  /\ pc = "split"
  /\ \E perm \in PermutationOutcomes(Arange(NumEdges)) :
       /\ eids' = perm
       /\ test_pos_u' = Gather(EdgeU, TestEids(perm))
       /\ test_pos_v' = Gather(EdgeV, TestEids(perm))
       /\ train_pos_u' = Gather(EdgeU, TrainEids(perm))
       /\ train_pos_v' = Gather(EdgeV, TrainEids(perm))
  /\ pc' = "negatives"
  /\ UNCHANGED <<inputs, negVars, setVars, trainVars, pred, resVars>>

\* enumerate the missing edges and sample the negatives
SampleNegatives ==
  /\ pc = "negatives"
  /\ AdjShape = <<NumNodes, NumNodes>>    \* else the subtraction cannot broadcast
  /\ \E draw \in ChoiceOutcomes(Len(NegU), NumNegSamples) :
       /\ neg_eids' = draw
       /\ test_neg_u' = Gather(NegU, TestNegEids(draw))
       /\ test_neg_v' = Gather(NegV, TestNegEids(draw))
       /\ train_neg_u' = Gather(NegU, TrainNegEids(draw))
       /\ train_neg_v' = Gather(NegV, TrainNegEids(draw))
  /\ pc' = "sets"
  /\ UNCHANGED <<inputs, posVars, setVars, trainVars, pred, resVars>>

\* concatenate positives and negatives, build the labels
CreateSets ==
  /\ pc = "sets"
  /\ train_u' = train_pos_u \o train_neg_u
  /\ train_v' = train_pos_v \o train_neg_v
  /\ train_label' = Labels(train_pos_u, train_neg_u)
  /\ test_u' = test_pos_u \o test_neg_u
  /\ test_v' = test_pos_v \o test_neg_v
  /\ test_label' = Labels(test_pos_u, test_neg_u)
  /\ pc' = "model"
  /\ UNCHANGED <<inputs, posVars, negVars, trainVars, pred, resVars>>

\* net = GraphSAGE(5, 16)
CreateModel ==
  /\ pc = "model"
  /\ net_w' = 0
  /\ pc' = "setup"
  /\ UNCHANGED <<inputs, posVars, negVars, setVars, opt_iter, e, logits, loss,
                 grads, all_logits, printed, n_forward, n_loss, pred, resVars>>

\* optimizer, loss function, all_logits = [], entry of the loop
BeginTraining ==
  /\ pc = "setup"
  /\ opt_iter' = 0
  /\ all_logits' = <<>>
  /\ e' = 0
  /\ pc' = IF 0 < NumEpochs THEN "forward" ELSE "check"
  /\ UNCHANGED <<inputs, posVars, negVars, setVars, net_w, logits, loss, grads,
                 printed, n_forward, n_loss, pred, resVars>>

\* logits = net(g, inputs); pred = sigmoid(...)
Forward ==
  /\ pc = "forward"
  /\ logits' = Net(net_w, inputs)
  /\ pred' = Sigmoid(logits', train_u, train_v)
  /\ n_forward' = n_forward + 1
  /\ pc' = "loss"
  /\ UNCHANGED <<inputs, posVars, negVars, setVars, net_w, opt_iter, e, loss,
                 grads, all_logits, printed, n_loss, resVars>>

\* loss = loss_fcn(train_label, pred)
ComputeLoss ==
  /\ pc = "loss"
  /\ \E l \in 0..MaxLoss : loss' = l
  /\ n_loss' = n_loss + 1
  /\ pc' = "backward"
  /\ UNCHANGED <<inputs, posVars, negVars, setVars, net_w, opt_iter, e, logits,
                 grads, all_logits, printed, n_forward, pred, resVars>>

\* grads = tape.gradient(loss, ...)
Backward ==
  /\ pc = "backward"
  /\ grads' = e
  /\ pc' = "apply"
  /\ UNCHANGED <<inputs, posVars, negVars, setVars, net_w, opt_iter, e, logits,
                 loss, all_logits, printed, n_forward, n_loss, pred, resVars>>

\* optimizer.apply_gradients(...): updates the network and the embedding
ApplyGradients ==
  /\ pc = "apply"
  /\ net_w' = net_w + 1
  /\ inputs' = Updated(inputs)
  /\ opt_iter' = opt_iter + 1
  /\ pc' = "append"
  /\ UNCHANGED <<posVars, negVars, setVars, e, logits, loss, grads, all_logits,
                 printed, n_forward, n_loss, pred, resVars>>

\* all_logits.append(logits.numpy())
AppendLogits ==
  /\ pc = "append"
  /\ all_logits' = Append(all_logits, logits)
  /\ pc' = "print"
  /\ UNCHANGED <<inputs, posVars, negVars, setVars, net_w, opt_iter, e, logits,
                 loss, grads, printed, n_forward, n_loss, pred, resVars>>

\* mutant: the loop stops early once the loss is 0
EndIterationEarlyStop ==
  /\ pc = "print"
  /\ printed' = IF e % PrintEvery = 0 THEN Append(printed, e) ELSE printed
  /\ IF e + 1 < NumEpochs /\ loss # 0
       THEN e' = e + 1 /\ pc' = "forward"
       ELSE e' = e /\ pc' = "check"
  /\ UNCHANGED <<inputs, posVars, negVars, setVars, net_w, opt_iter, logits,
                 loss, grads, all_logits, n_forward, n_loss, pred, resVars>>

\* if e % 5 == 0: print(...); then the next iteration of range(100)
EndIteration ==
  /\ pc = "print"
  /\ printed' = IF e % PrintEvery = 0 THEN Append(printed, e) ELSE printed
  /\ IF e + 1 < NumEpochs
       THEN e' = e + 1 /\ pc' = "forward"
       ELSE e' = e /\ pc' = "check"
  /\ UNCHANGED <<inputs, posVars, negVars, setVars, net_w, opt_iter, logits,
                 loss, grads, all_logits, n_forward, n_loss, pred, resVars>>

\* mutant: the check runs a forward pass with the final parameters first
CheckResultsFresh ==
  /\ pc = "check"
  /\ logits' = Net(net_w, inputs)
  /\ pred' = Sigmoid(logits', test_u, test_v)
  /\ \E bits \in Thresholded(pred'.n) :
       /\ pred_ge' = bits
       /\ acc' = Accuracy(bits, test_label)
  /\ pc' = "done"
  /\ UNCHANGED <<inputs, posVars, negVars, setVars, net_w, opt_iter, e, loss,
                 grads, all_logits, printed, n_forward, n_loss>>

\* accuracy of the thresholded predictions, from the logits variable
CheckResults ==
  /\ pc = "check"
  /\ pred' = Sigmoid(logits, test_u, test_v)
  /\ \E bits \in Thresholded(pred'.n) :
       /\ pred_ge' = bits
       /\ acc' = Accuracy(bits, test_label)
  /\ pc' = "done"
  /\ UNCHANGED <<inputs, posVars, negVars, setVars, trainVars>>

Next ==
  \/ LoadGraph
  \/ SplitEdges
  \/ SampleNegatives
  \/ CreateSets
  \/ CreateModel
  \/ BeginTraining
  \/ Forward
  \/ ComputeLoss
  \/ Backward
  \/ ApplyGradients
  \/ AppendLogits
  \/ EndIteration
  \/ CheckResults

Spec == Init /\ [][Next]_vars

\* the script runs to its end: every cell and every loop step is executed
FairSpec == Spec /\ WF_vars(Next)

(***************************************************************************)
(* Properties.                                                             *)
(***************************************************************************)
Pairs(us, vs) == { <<us[i], vs[i]>> : i \in 1..Len(us) }

SplitDone == pc \notin {"load", "split"}
NegativesDone == pc \notin {"load", "split", "negatives"}
SetsDone == pc \notin {"load", "split", "negatives", "sets"}
InTraining == pc \in {"forward", "loss", "backward", "apply", "append", "print"}
LoopDone == pc \in {"check", "done"}

\* C1: once the edges are split, eids is a permutation of all edge ids, the
\* test positives are exactly 50 distinct edges, the training positives are
\* all the other edges, no edge is in both, and the two counts add up to the
\* number of edges of the graph.
C1_PositiveSplitIsPartition ==
  SplitDone =>
    /\ Len(eids) = NumEdges
    /\ Range(eids) = 0..(NumEdges - 1)
    /\ Len(test_pos_u) = 50 /\ Len(test_pos_v) = 50
    /\ Len(train_pos_u) = Len(train_pos_v)
    /\ Cardinality(Pairs(test_pos_u, test_pos_v)) = 50
    /\ Cardinality(Pairs(train_pos_u, train_pos_v)) = Len(train_pos_u)
    /\ Pairs(test_pos_u, test_pos_v) \cap Pairs(train_pos_u, train_pos_v) = {}
    /\ Pairs(test_pos_u, test_pos_v) \cup Pairs(train_pos_u, train_pos_v) = EdgeSet
    /\ Len(train_pos_u) + Len(test_pos_u) = NumEdges

C1_Witness ==
  /\ pc = "negatives"
  /\ NumEdges >= 50
  /\ eids # Arange(NumEdges)
  /\ Len(test_pos_u) = 50

\* C2: once the negatives are sampled, exactly 200 indices have been drawn,
\* the first 50 give the test negatives and the other 150 the training
\* negatives; once the sets are built, the training set has
\* (number of edges - 50) + 150 entries and the test set has 100.
C2_NegativeCounts ==
  /\ NegativesDone =>
       /\ Len(neg_eids) = 200
       /\ Len(test_neg_u) = 50 /\ Len(test_neg_v) = 50
       /\ Len(train_neg_u) = 150 /\ Len(train_neg_v) = 150
       /\ \A i \in 1..50 :
            /\ test_neg_u[i] = NegU[neg_eids[i] + 1]
            /\ test_neg_v[i] = NegV[neg_eids[i] + 1]
       /\ \A i \in 1..150 :
            /\ train_neg_u[i] = NegU[neg_eids[50 + i] + 1]
            /\ train_neg_v[i] = NegV[neg_eids[50 + i] + 1]
  /\ SetsDone =>
       /\ Len(train_u) = (NumEdges - 50) + 150 /\ Len(train_v) = Len(train_u)
       /\ Len(test_u) = 100 /\ Len(test_v) = 100

C2_Witness ==
  /\ pc = "model"
  /\ Len(neg_eids) = 200
  /\ Len(train_u) = 256
  /\ Len(test_u) = 100

\* (a, b) is a pair of distinct valid nodes without an edge a -> b
NonEdge(a, b) ==
  /\ <<a, b>> \notin EdgeSet
  /\ a # b
  /\ a \in 0..33 /\ b \in 0..33

\* C3: every sampled negative pair (u, v), for training and for testing, is
\* not a directed edge of the graph, has u # v, and has both endpoints in
\* 0..33.
C3_NegativesAreNonEdges ==
  NegativesDone =>
    /\ \A i \in 1..Len(test_neg_u) : NonEdge(test_neg_u[i], test_neg_v[i])
    /\ \A i \in 1..Len(train_neg_u) : NonEdge(train_neg_u[i], train_neg_v[i])

C3_Witness ==
  /\ pc = "sets"
  /\ Len(test_neg_u) = 50
  /\ Len(train_neg_u) = 150
  /\ neg_eids[1] = 0

\* the epochs below n whose loss line is printed
MultiplesBelow(n) == [i \in 1..((n + PrintEvery - 1) \div PrintEvery) |-> PrintEvery * (i - 1)]

\* the counters of the loop at the start and the end of iteration e, and
\* after the loop
C4_LoopCounts ==
  /\ InTraining => e \in 0..99
  /\ pc = "forward" =>
       /\ n_forward = e /\ n_loss = e /\ opt_iter = e
       /\ printed = MultiplesBelow(e)
  /\ pc = "print" => n_forward = e + 1 /\ n_loss = e + 1 /\ opt_iter = e + 1
  /\ LoopDone =>
       /\ e = 99
       /\ n_forward = 100 /\ n_loss = 100 /\ opt_iter = 100
       /\ Len(printed) = 20
       /\ \A i \in 1..20 : printed[i] = 5 * (i - 1)

\* C4: the script reaches its end; the loop is left only after iteration
\* e = 99, whatever the losses; iteration e is the (e+1)-th forward pass,
\* loss computation and optimizer update; and the loss lines printed are
\* exactly those of e = 0, 5, ..., 95 (20 lines).
C4_FixedHundredIterations == <>(pc = "done") /\ []C4_LoopCounts

C4_Witness ==
  /\ pc = "done"
  /\ loss = 0
  /\ opt_iter = 100
  /\ Len(printed) = 20

\* C5: the printed accuracy is defined (no division by zero), its
\* denominator is the number of test examples, 100, and its numerator is the
\* number of test examples whose thresholded prediction equals the label, an
\* integer in 0..100.
C5_AccuracyIsFraction ==
  pc = "done" =>
    /\ acc.ok
    /\ acc.den = 100 /\ acc.den = Len(test_label)
    /\ acc.num \in 0..100
    /\ Len(pred_ge) = 100
    /\ acc.num = Cardinality({ i \in 1..100 : pred_ge[i] <=> (test_label[i] = 1) })

C5_Witness ==
  /\ pc = "done"
  /\ acc.ok
  /\ acc.num > 0
  /\ acc.num < acc.den

\* C6: the 200 sampled negative indices are pairwise distinct, so no missing
\* edge is picked twice, within a set or across the test and training sets.
C6_NegativesDistinct ==
  NegativesDone =>
    \A i, j \in 1..Len(neg_eids) : i # j => neg_eids[i] # neg_eids[j]

\* labels lab against the endpoints us, vs built from positives and negatives
Aligned(us, vs, lab, pu, pv, nu, nv) ==
  /\ Len(lab) = Len(us) /\ Len(us) = Len(vs)
  /\ Len(lab) = Len(pu) + Len(nu)
  /\ \A i \in 1..Len(lab) :
       /\ lab[i] \in {0, 1}
       /\ (lab[i] = 0) <=> (i <= Len(pu))
       /\ i <= Len(pu) =>
            /\ us[i] = pu[i] /\ vs[i] = pv[i]
            /\ <<us[i], vs[i]>> \in EdgeSet
       /\ i > Len(pu) =>
            /\ us[i] = nu[i - Len(pu)] /\ vs[i] = nv[i - Len(pu)]
            /\ <<us[i], vs[i]>> \notin EdgeSet

\* C7: in the training and in the test set the label vector is as long as the
\* endpoint vectors and aligned with them: label 0 exactly at the positions
\* holding the positive (existing) edges, label 1 exactly at the positions
\* holding the sampled negatives; the accuracy counts with this encoding.
C7_LabelsAligned ==
  /\ SetsDone =>
       /\ Aligned(train_u, train_v, train_label,
                  train_pos_u, train_pos_v, train_neg_u, train_neg_v)
       /\ Aligned(test_u, test_v, test_label,
                  test_pos_u, test_pos_v, test_neg_u, test_neg_v)
  /\ pc = "done" =>
       acc.num = Cardinality({ i \in 1..Len(test_pos_u) : ~pred_ge[i] })
                 + Cardinality({ i \in (Len(test_pos_u) + 1)..Len(test_u) : pred_ge[i] })

C7_Witness ==
  /\ pc = "done"
  /\ train_label[1] = 0 /\ train_label[Len(train_label)] = 1
  /\ test_label[1] = 0 /\ test_label[Len(test_label)] = 1
  /\ acc.num = 100

\* C8: the embedding matrix has one row per node, 34 rows, of 5 columns
\* each, from its creation on and after every optimizer update.
C8_EmbeddingShape ==
  pc # "load" =>
    /\ Shape(inputs) = <<34, 5>>
    /\ Len(inputs) = GNumNodes
    /\ \A n \in 1..Len(inputs) : Len(inputs[n]) = 5

C8_Witness ==
  /\ pc = "done"
  /\ opt_iter = 100
  /\ inputs[34][5] = 100

\* C9: during training no test positive edge takes part: neither the pair
\* nor its reverse is in the training set, and the pair is not an edge of
\* the graph the forward pass aggregates over.
C9_TestPositivesHeldOut ==
  InTraining =>
    \A i \in 1..Len(test_pos_u) :
      /\ <<test_pos_u[i], test_pos_v[i]>> \notin Pairs(train_u, train_v)
      /\ <<test_pos_v[i], test_pos_u[i]>> \notin Pairs(train_u, train_v)
      /\ <<test_pos_u[i], test_pos_v[i]>> \notin MessageEdges

\* the node representations computed from parameters after k updates
LogitsAfter(k) == [net |-> k, emb |-> k, rows |-> 34]

\* C10: in iteration e the steps run in the order forward, loss, gradient,
\* update, append; after the loop all_logits has 100 entries, entry e comes
\* from the parameters after e updates, and the accuracy is computed from the
\* logits of the last forward pass (99 updates) although the parameters have
\* received 100 updates.
C10_StepOrderAndStaleLogits ==
  /\ pc = "loss" =>
       /\ n_forward = e + 1 /\ n_loss = e /\ grads = e - 1 /\ opt_iter = e
       /\ Len(all_logits) = e /\ logits = LogitsAfter(e)
  /\ pc = "backward" =>
       /\ n_loss = e + 1 /\ grads = e - 1 /\ opt_iter = e /\ Len(all_logits) = e
  /\ pc = "apply" =>
       /\ grads = e /\ opt_iter = e /\ net_w = e /\ Len(all_logits) = e
  /\ pc = "append" =>
       /\ opt_iter = e + 1 /\ net_w = e + 1 /\ Len(all_logits) = e
       /\ logits = LogitsAfter(e)
  /\ pc = "print" =>
       /\ Len(all_logits) = e + 1 /\ all_logits[e + 1] = LogitsAfter(e)
  /\ LoopDone =>
       /\ Len(all_logits) = 100
       /\ \A k \in 0..99 : all_logits[k + 1] = LogitsAfter(k)
       /\ net_w = 100 /\ inputs[1][1] = 100
       /\ logits = LogitsAfter(99)
  /\ pc = "done" =>
       /\ pred.src = LogitsAfter(99)
       /\ pred.n = Len(test_u)

C10_Witness ==
  /\ pc = "done"
  /\ Len(all_logits) = 100
  /\ pred.src.net = 99
  /\ net_w = 100

====
